---- MODULE Spec2Model ----
(***************************************************************************)
(* A model of the circuit breaker of src/src/lib.rs: the CircuitBreaker    *)
(* struct, its operations (execute, handle_failure, handle_success, trip,  *)
(* reset), the tokio broadcast channel it sends its transition events on,  *)
(* and the listener tasks started by set_on_open / set_on_close /          *)
(* set_on_half_open.                                                       *)
(*                                                                         *)
(* The struct's fields are the variables of the same name.  One action     *)
(* models one whole call of a public method; the methods themselves are    *)
(* operators on a record of the fields (Self), composed as the code        *)
(* composes them.  `now` is the monotonic clock read by Instant::now().    *)
(* A panic (the unwrap() of a failed send) ends the run: `panicked`.       *)
(*                                                                         *)
(* `last` is an observation of the latest step, not program state: which   *)
(* operation ran, how often the wrapped operation was invoked, what was    *)
(* passed in and returned, which events the call tried to send.            *)
(***************************************************************************)
EXTENDS Naturals, Sequences, FiniteSets

VARIABLES state, consecutive_failures, consecutive_successes,
          total_failures, total_successes, max_failures, timeout,
          open_timeout, pause_time,
          listeners,
          now, panicked, last

vars == <<state, consecutive_failures, consecutive_successes,
          total_failures, total_successes, max_failures, timeout,
          open_timeout, pause_time, listeners,
          now, panicked, last>>

(* ------------------------------ bounds -------------------------------- *)

\* largest max_failures / timeout / pause_time passed to new()
MaxMaxFailures == 2
MaxTimeout == 1
MaxPause == 1
\* the clock stops advancing here
MaxTime == 2
\* caps of the lifetime counters, of a listener's unread events, of listeners
MaxTotal == 2
MaxBacklog == 1
MaxListeners == 1
\* SpecLag: events sent beyond the channel's capacity, and its listeners
LagSlack == 1
LagListeners == 1
\* SpecFanout: its listeners, and the unread events of each
FanoutListeners == 2
FanoutBacklog == 1

(* ----------------------------- constants ------------------------------ *)

\* broadcast::channel(16)
Capacity == 16

\* Err("Circuit breaker is open".to_string())
CircuitOpenError == "Circuit breaker is open"

\* the results a caller-supplied operation can produce: Result<String, String>
OkResult(s) == [ok |-> TRUE, val |-> s]
ErrResult(s) == [ok |-> FALSE, val |-> s]
Operations == {OkResult("payload"), ErrResult("boom"), ErrResult(CircuitOpenError)}
\* what `last.result` holds when the call did not return
Panic == [ok |-> FALSE, val |-> "<panic>"]
NoResult == [ok |-> TRUE, val |-> "<none>"]

(* ------------------------ the broadcast channel ----------------------- *)

\* A listener is the receiver its task owns: `kind` is the event name its
\* callback is for, `pending` the values sent since it subscribed that it
\* has not received yet (oldest first), `alive` whether its task still runs.

\* the number of live receivers (tokio: rx_cnt)
RxCnt(self) == Cardinality({i \in 1..Len(self.listeners) : self.listeners[i].alive})

\* Sender::send: with no receiver the value comes back as Err and is
\* dropped; otherwise every live receiver has it to receive
ChannelSend(self, msg) ==
    IF RxCnt(self) = 0
    THEN self
    ELSE [self EXCEPT !.listeners =
            [i \in 1..Len(@) |-> IF @[i].alive
                                 THEN [@[i] EXCEPT !.pending = Append(@, msg)]
                                 ELSE @[i]]]

SendFails(self) == RxCnt(self) = 0

\* mutant of SendUnwrap: the failed send is ignored instead of unwrapped
SendUnwrap_ignored(self, msg) ==
    ChannelSend([self EXCEPT !.sent = Append(@, msg)], msg)

\* self.sender.send(msg).unwrap(): a failed send panics
SendUnwrap(self, msg) ==
    LET s == [self EXCEPT !.sent = Append(@, msg)]
    IN IF SendFails(s) THEN [s EXCEPT !.panicked = TRUE] ELSE ChannelSend(s, msg)

\* if let Err(err) = self.sender.send(msg) { eprintln!(..) }: a failed send is logged
SendLogged(self, msg) ==
    ChannelSend([self EXCEPT !.sent = Append(@, msg)], msg)

(* ----------------------- the breaker's operations --------------------- *)

\* mutant of trip: the cooldown is added to the previous deadline
trip_extending(self) ==
    SendUnwrap([self EXCEPT !.state = "Open",
                            !.consecutive_failures = 0,
                            !.consecutive_successes = 0,
                            !.open_timeout = self.open_timeout + self.timeout],
               "open")

\* mutant of trip: consecutive_failures is left as it is
trip_keeping_count(self) ==
    SendUnwrap([self EXCEPT !.state = "Open",
                            !.consecutive_successes = 0,
                            !.open_timeout = self.now + self.timeout],
               "open")

trip(self) ==
    SendUnwrap([self EXCEPT !.state = "Open",
                            !.consecutive_failures = 0,
                            !.consecutive_successes = 0,
                            !.open_timeout = self.now + self.timeout],
               "open")

\* mutant of reset: the lifetime counters are cleared with the consecutive ones
reset_clearing_totals(self) ==
    SendLogged([self EXCEPT !.state = "Closed",
                            !.consecutive_failures = 0,
                            !.consecutive_successes = 0,
                            !.total_failures = 0,
                            !.total_successes = 0],
               "close")

\* mutant of reset: a breaker that is already Closed sends no event
reset_silent_when_closed(self) ==
    LET s == [self EXCEPT !.state = "Closed",
                          !.consecutive_failures = 0,
                          !.consecutive_successes = 0]
    IN IF self.state = "Closed" THEN s ELSE SendLogged(s, "close")

reset(self) ==
    SendLogged([self EXCEPT !.state = "Closed",
                            !.consecutive_failures = 0,
                            !.consecutive_successes = 0],
               "close")

\* mutant of handle_failure: the threshold is compared with the lifetime
\* count, so a success does not restart the count
handle_failure_lifetime(self) ==
    LET s == [self EXCEPT !.consecutive_failures = @ + 1,
                          !.total_failures = @ + 1]
    IN IF s.total_failures >= s.max_failures THEN trip(s) ELSE s

\* mutant of handle_failure: trips only once the threshold is exceeded
handle_failure_exceeding(self) ==
    LET s == [self EXCEPT !.consecutive_failures = @ + 1,
                          !.total_failures = @ + 1]
    IN IF s.consecutive_failures > s.max_failures THEN trip(s) ELSE s

handle_failure(self) ==
    LET s == [self EXCEPT !.consecutive_failures = @ + 1,
                          !.total_failures = @ + 1]
    IN IF s.consecutive_failures >= s.max_failures THEN trip(s) ELSE s

\* mutant of handle_success: the success is counted in consecutive_successes
handle_success_counting(self) ==
    LET s == reset(self)
    IN [s EXCEPT !.total_successes = @ + 1,
                 !.consecutive_successes = @ + 1]

handle_success(self) ==
    LET s == reset(self)
    IN [s EXCEPT !.total_successes = @ + 1]

\* lines 65-75: invoke the operation, account its result
ClosedPath(self, op) ==
    LET s == [self EXCEPT !.invoked = @ + 1]
        t == IF op.ok THEN handle_success(s) ELSE handle_failure(s)
    IN [t EXCEPT !.result = IF t.panicked THEN Panic ELSE op]

\* mutant of HalfOpenPath: the result of the pass-through call is accounted
HalfOpenPath_accounting(self, op) ==
    [ClosedPath(self, op) EXCEPT !.now = @ + self.pause_time]

\* lines 57-61: the operation, then the pause, then the raw result
HalfOpenPath(self, op) ==
    [self EXCEPT !.now = @ + self.pause_time,
                 !.invoked = @ + 1,
                 !.result = op]

\* mutant of OpenPath: "halfOpen" is sent once the probe has been accounted
OpenPath_late_event(self, op) ==
    IF self.now > self.open_timeout
    THEN LET s == ClosedPath([self EXCEPT !.state = "HalfOpen"], op)
         IN IF s.panicked THEN s ELSE SendUnwrap(s, "halfOpen")
    ELSE [self EXCEPT !.result = ErrResult(CircuitOpenError)]

\* mutant of OpenPath: the probe is allowed at the deadline itself
OpenPath_at_deadline(self, op) ==
    IF self.now >= self.open_timeout
    THEN LET s == SendUnwrap([self EXCEPT !.state = "HalfOpen"], "halfOpen")
         IN IF s.panicked THEN [s EXCEPT !.result = Panic]
            ELSE ClosedPath(s, op)
    ELSE [self EXCEPT !.result = ErrResult(CircuitOpenError)]

\* lines 49-56
OpenPath(self, op) ==
    IF self.now > self.open_timeout
    THEN LET s == SendUnwrap([self EXCEPT !.state = "HalfOpen"], "halfOpen")
         IN IF s.panicked THEN [s EXCEPT !.result = Panic]
            ELSE ClosedPath(s, op)
    ELSE [self EXCEPT !.result = ErrResult(CircuitOpenError)]

\* mutant of execute: a call made while HalfOpen falls through to the
\* accounting path like a call made while Closed
execute_fallthrough(self, op) ==
    CASE self.state = "Open" -> OpenPath(self, op)
      [] OTHER -> ClosedPath(self, op)

execute(self, op) ==
    CASE self.state = "Open" -> OpenPath(self, op)
      [] self.state = "HalfOpen" -> HalfOpenPath(self, op)
      [] OTHER -> ClosedPath(self, op)

(* ------------------------------- state -------------------------------- *)

\* the breaker as the methods see it, at the start of a call
Self ==
    [state |-> state,
     consecutive_failures |-> consecutive_failures,
     consecutive_successes |-> consecutive_successes,
     total_failures |-> total_failures,
     total_successes |-> total_successes,
     max_failures |-> max_failures,
     timeout |-> timeout,
     open_timeout |-> open_timeout,
     pause_time |-> pause_time,
     listeners |-> listeners,
     now |-> now,
     panicked |-> panicked,
     invoked |-> 0,
     result |-> NoResult,
     sent |-> <<>>]

\* the observation of a step that is not a call of the breaker
Step(name) == [op |-> name, arg |-> NoResult, invoked |-> 0, result |-> NoResult,
               sent |-> <<>>, listener |-> 0, fired |-> FALSE]

\* the observation of a call of `name` that ended in s: a call that
\* panicked returned nothing
Observed(name, s) ==
    [Step(name) EXCEPT !.invoked = s.invoked,
                       !.result = IF s.panicked THEN Panic ELSE s.result,
                       !.sent = s.sent]

\* the fields after a call that ended in s
Becomes(s) ==
    /\ state' = s.state
    /\ consecutive_failures' = s.consecutive_failures
    /\ consecutive_successes' = s.consecutive_successes
    /\ total_failures' = s.total_failures
    /\ total_successes' = s.total_successes
    /\ max_failures' = s.max_failures
    /\ timeout' = s.timeout
    /\ open_timeout' = s.open_timeout
    /\ pause_time' = s.pause_time
    /\ listeners' = s.listeners
    /\ now' = s.now
    /\ panicked' = s.panicked

\* CircuitBreaker::new(max_failures, timeout, pause_time)
Init ==
    /\ state = "Closed"
    /\ consecutive_failures = 0
    /\ total_failures = 0
    /\ total_successes = 0
    /\ max_failures \in 0..MaxMaxFailures
    /\ timeout \in {0, MaxTimeout}
    /\ open_timeout = 0
    /\ pause_time \in {0, MaxPause}
    /\ consecutive_successes = 0
    /\ listeners = <<>>
    /\ now = 0
    /\ panicked = FALSE
    /\ last = Step("new")

(* ------------------------------ actions ------------------------------- *)

\* a panic ends the run
Live == ~panicked

\* what keeps the model finite: the clock, the lifetime counters and every
\* listener's unread events are within their caps when a call starts
Backlog(n) == \A i \in 1..Len(listeners) : Len(listeners[i].pending) < n
Bounded ==
    /\ total_failures + total_successes <= MaxTotal
    /\ Backlog(MaxBacklog)
    /\ now <= MaxTime

\* a call of the public method `name` that takes Self to s
Call(name, s) ==
    /\ Live
    /\ Becomes(s)
    /\ last' = Observed(name, s)

Execute(op) ==
    /\ Live
    /\ Becomes(execute(Self, op))
    /\ last' = [Observed("execute", execute(Self, op)) EXCEPT !.arg = op]

HandleFailure == Call("handle_failure", handle_failure(Self))
HandleSuccess == Call("handle_success", handle_success(Self))
Trip == Call("trip", trip(Self))
Reset == Call("reset", reset(Self))

\* self.sender.subscribe() and tokio::spawn of the receive loop: the new
\* receiver sees the values sent from now on
Subscribe(kind) ==
    /\ Live
    /\ listeners' = Append(listeners, [kind |-> kind, pending |-> <<>>, alive |-> TRUE])
    /\ last' = [Step("subscribe") EXCEPT !.listener = Len(listeners) + 1]
    /\ UNCHANGED <<state, consecutive_failures, consecutive_successes,
                   total_failures, total_successes, max_failures, timeout,
                   open_timeout, pause_time, now, panicked>>

SetOnOpen == Subscribe("open")
SetOnClose == Subscribe("close")
SetOnHalfOpen == Subscribe("halfOpen")

\* Receiver::recv of listener i, when it would not wait: Err(Lagged) when
\* more than Capacity values were sent since the one it is to receive next
\* (the ring has overwritten it), that value otherwise
Lagged(i) == Len(listeners[i].pending) > Capacity
Received(i) == Head(listeners[i].pending)

\* mutant of ListenerStep: the listeners take their events from one shared
\* queue, so what one listener receives is gone for the others
ListenerStep_shared(i) ==
    /\ listeners' = [j \in 1..Len(listeners) |->
                        IF listeners[j].pending # <<>>
                        THEN [listeners[j] EXCEPT !.pending = Tail(@)]
                        ELSE listeners[j]]
    /\ last' = [Step("recv") EXCEPT !.listener = i,
                                    !.sent = <<Received(i)>>,
                                    !.fired = (Received(i) = listeners[i].kind)]

\* one turn of `while let Ok(message) = receiver.recv().await { .. }`: on
\* Err the loop ends, the task finishes and its receiver is dropped
ListenerStep(i) ==
    IF Lagged(i)
    THEN /\ listeners' = [listeners EXCEPT ![i].alive = FALSE, ![i].pending = <<>>]
         /\ last' = [Step("lagged") EXCEPT !.listener = i]
    ELSE /\ listeners' = [listeners EXCEPT ![i].pending = Tail(@)]
         /\ last' = [Step("recv") EXCEPT !.listener = i,
                                         !.sent = <<Received(i)>>,
                                         !.fired = (Received(i) = listeners[i].kind)]

ListenerRecv(i) ==
    /\ Live
    /\ listeners[i].alive
    /\ listeners[i].pending # <<>>
    /\ ListenerStep(i)
    /\ UNCHANGED <<state, consecutive_failures, consecutive_successes,
                   total_failures, total_successes, max_failures, timeout,
                   open_timeout, pause_time, now, panicked>>

\* time passes between calls
Tick ==
    /\ Live
    /\ now < MaxTime
    /\ now' = now + 1
    /\ last' = Step("tick")
    /\ UNCHANGED <<state, consecutive_failures, consecutive_successes,
                   total_failures, total_successes, max_failures, timeout,
                   open_timeout, pause_time, listeners, panicked>>

(* --------------------------- specifications --------------------------- *)

\* any caller: every public method, listeners, time
Next ==
    \/ Bounded /\ \E op \in Operations : Execute(op)
    \/ Bounded /\ HandleFailure
    \/ Bounded /\ HandleSuccess
    \/ Bounded /\ Trip
    \/ Bounded /\ Reset
    \/ Len(listeners) < MaxListeners /\ SetOnOpen
    \/ Len(listeners) < MaxListeners /\ SetOnClose
    \/ Len(listeners) < MaxListeners /\ SetOnHalfOpen
    \/ \E i \in 1..Len(listeners) : ListenerRecv(i)
    \/ Tick

Spec == Init /\ [][Next]_vars

\* a caller that only invokes execute, with an operation that always fails
FailingOperations == {op \in Operations : ~op.ok}

\* the caller goes on for MaxTotal accounted failures past the threshold
BoundedCaller ==
    /\ total_failures < max_failures + MaxTotal
    /\ Backlog(MaxBacklog)
    /\ now <= MaxTime

NextCaller ==
    \/ BoundedCaller /\ \E op \in FailingOperations : Execute(op)
    \/ Len(listeners) < MaxListeners /\ SetOnOpen
    \/ Len(listeners) < MaxListeners /\ SetOnClose
    \/ Len(listeners) < MaxListeners /\ SetOnHalfOpen
    \/ \E i \in 1..Len(listeners) : ListenerRecv(i)
    \/ Tick

SpecCaller == Init /\ [][NextCaller]_vars

\* a caller that only invokes execute, on a dependency that works and then
\* breaks for good, with listeners that may fall behind by more events than
\* the channel holds
BoundedLag ==
    /\ total_successes < Capacity + LagSlack
    /\ Backlog(Capacity + LagSlack)

NextLag ==
    \/ BoundedLag /\ total_failures = 0 /\ Execute(OkResult("payload"))
    \/ BoundedLag /\ total_failures <= MaxTotal
          /\ \E op \in FailingOperations : Execute(op)
    \/ Len(listeners) < LagListeners /\ SetOnOpen
    \/ Len(listeners) < LagListeners /\ SetOnClose
    \/ Len(listeners) < LagListeners /\ SetOnHalfOpen
    \/ \E i \in 1..Len(listeners) : ListenerRecv(i)
    \/ Tick

SpecLag == Init /\ [][NextLag]_vars

\* a caller that only invokes execute, with several listeners that consume
\* their events at different speeds, none falling behind the buffer; time
\* is let pass where the code reads the clock against a deadline, while Open
BoundedFanout ==
    /\ total_failures + total_successes <= MaxTotal
    /\ Backlog(FanoutBacklog)
    /\ now <= MaxTime

\* an operation that works or fails with an error of its own
PlainOperations == {OkResult("payload"), ErrResult("boom")}

NextFanout ==
    \/ BoundedFanout /\ \E op \in PlainOperations : Execute(op)
    \/ Len(listeners) < FanoutListeners /\ SetOnOpen
    \/ Len(listeners) < FanoutListeners /\ SetOnClose
    \/ Len(listeners) < FanoutListeners /\ SetOnHalfOpen
    \/ \E i \in 1..Len(listeners) : ListenerRecv(i)
    \/ state = "Open" /\ Tick

SpecFanout == Init /\ [][NextFanout]_vars

(* ------------------------------- claims ------------------------------- *)

\* the events of a sequence of sends
Events(s) == {s[i] : i \in 1..Len(s)}

\* the failure being accounted brings consecutive_failures to the threshold
Threshold == consecutive_failures + 1 >= max_failures

\* C1, as stated: with only failing execute calls, a call made while Closed
\* sets the state to Open exactly when its failure brings
\* consecutive_failures to max_failures, sending one "open" then and
\* nothing otherwise; every failing call made while Open leaves the state
\* Open and sends no "open".
C1_Original ==
    [][last'.op = "execute" =>
         /\ state = "Closed" =>
              /\ (state' = "Open") <=> Threshold
              /\ last'.sent = IF Threshold THEN <<"open">> ELSE <<>>
         /\ state = "Open" =>
              /\ state' = "Open"
              /\ "open" \notin Events(last'.sent)]_vars

\* C1, amended: the same, but a failing call made while Open leaves the
\* state Open, sends nothing and does not invoke the operation only while
\* the cooldown has not elapsed (now <= open_timeout).
C1_TripsOnce ==
    [][last'.op = "execute" =>
         /\ state = "Closed" =>
              /\ (state' = "Open") <=> Threshold
              /\ last'.sent = IF Threshold THEN <<"open">> ELSE <<>>
         /\ (state = "Open" /\ now <= open_timeout) =>
              /\ state' = "Open"
              /\ last'.sent = <<>>
              /\ last'.invoked = 0]_vars

\* a failing call rejected after two failures tripped a breaker of threshold 2
C1_Witness ==
    /\ state = "Open" /\ ~panicked
    /\ max_failures = 2 /\ total_failures = 2
    /\ last.op = "execute" /\ last.invoked = 0

\* C2: an execute call made while Open with now <= open_timeout returns the
\* synthetic error, does not invoke the operation, sends no event, and leaves
\* state, both consecutive counters, both totals and open_timeout unchanged.
C2_Rejects ==
    [][(last'.op = "execute" /\ state = "Open" /\ now <= open_timeout) =>
         /\ last'.result = ErrResult(CircuitOpenError)
         /\ last'.invoked = 0
         /\ last'.sent = <<>>
         /\ UNCHANGED <<state, consecutive_failures, consecutive_successes,
                        total_failures, total_successes, open_timeout>>]_vars

\* a call was rejected at the deadline itself
C2_Witness ==
    /\ state = "Open" /\ now = open_timeout /\ ~panicked
    /\ last.op = "execute" /\ last.invoked = 0
    /\ last.result = ErrResult(CircuitOpenError)

\* C3: an execute call made while Open with now > open_timeout sends
\* "halfOpen" first, invokes the operation exactly once, and ends Closed with
\* total_successes one higher if the operation succeeded, Open if it failed
\* and consecutive_failures reached max_failures, and otherwise HalfOpen
\* with consecutive_failures nonzero.
C3_Probe ==
    [][(last'.op = "execute" /\ state = "Open" /\ now > open_timeout) =>
         /\ last'.sent # <<>> /\ Head(last'.sent) = "halfOpen"
         /\ last'.invoked = 1
         /\ \/ /\ last'.arg.ok
               /\ state' = "Closed"
               /\ total_successes' = total_successes + 1
            \/ /\ ~last'.arg.ok /\ Threshold
               /\ state' = "Open"
            \/ /\ ~last'.arg.ok /\ ~Threshold
               /\ state' = "HalfOpen"
               /\ consecutive_failures' # 0]_vars

\* C4: an execute call made while HalfOpen invokes the operation once, waits
\* pause_time, returns the operation's result, sends no event, and leaves
\* state, both consecutive counters, both totals, open_timeout and the
\* listeners unchanged.
C4_PassThrough ==
    [][(last'.op = "execute" /\ state = "HalfOpen") =>
         /\ last'.invoked = 1
         /\ last'.result = last'.arg
         /\ last'.sent = <<>>
         /\ now' = now + pause_time
         /\ UNCHANGED <<state, consecutive_failures, consecutive_successes,
                        total_failures, total_successes, open_timeout,
                        listeners>>]_vars

\* a successful operation passed through a breaker that stays HalfOpen
C4_Witness ==
    /\ state = "HalfOpen" /\ consecutive_failures > 0
    /\ last.op = "execute" /\ last.arg.ok /\ last.result = last.arg

\* C5: for a caller of execute whose operation always fails, once
\* max_failures real failures have been counted the operation is invoked
\* only by the probe: by a call made while Open after the cooldown has
\* elapsed.  Every other call is guarded.
C5_GuardedAfterThreshold ==
    [][(/\ last'.op = "execute" /\ last'.invoked > 0
        /\ total_failures > 0 /\ total_failures >= max_failures) =>
         (state = "Open" /\ now > open_timeout)]_vars

\* C6: a listener task that runs keeps running.
C6_ListenersStay ==
    [][\A i \in 1..Len(listeners) : listeners[i].alive => listeners'[i].alive]_vars

\* C7: a call that sends "open" or "halfOpen" while no listener is subscribed
\* panics instead of returning; a call that sends only "close" while no
\* listener is subscribed returns, with state Closed and both consecutive
\* counters 0.
C7_FatalSends ==
    [][(last'.op \in {"execute", "handle_failure", "handle_success", "trip", "reset"}
          /\ RxCnt(Self) = 0) =>
         /\ ({"open", "halfOpen"} \cap Events(last'.sent) # {}) =>
              /\ panicked'
              /\ last'.result = Panic
         /\ last'.sent = <<"close">> =>
              /\ ~panicked'
              /\ last'.result # Panic
              /\ state' = "Closed"
              /\ consecutive_failures' = 0
              /\ consecutive_successes' = 0]_vars

\* the probe's "halfOpen" found no listener left: the call panicked before
\* it invoked the operation
C7_Witness ==
    /\ panicked /\ state = "HalfOpen"
    /\ last.op = "execute" /\ last.sent = <<"halfOpen">> /\ last.invoked = 0

\* C8: no step lowers total_failures or total_successes, and trip() and
\* reset() leave both unchanged.
C8_TotalsMonotone ==
    [][/\ total_failures' >= total_failures
       /\ total_successes' >= total_successes
       /\ last'.op \in {"trip", "reset"} =>
            UNCHANGED <<total_failures, total_successes>>]_vars

\* reset() ran on a breaker that has counted failures and successes
C8_Witness ==
    /\ last.op = "reset"
    /\ total_failures > 0 /\ total_successes > 0

\* C9: an execute call that returns gives the operation's result when it
\* invoked the operation and the synthetic error when it did not, and the
\* synthetic error is returned only by calls that did not invoke it.
C9_Results ==
    (last.op = "execute" /\ ~panicked) =>
        /\ last.invoked > 0 => last.result = last.arg
        /\ last.invoked = 0 => last.result = ErrResult(CircuitOpenError)
        /\ last.result = ErrResult(CircuitOpenError) => last.invoked = 0

\* C10: from every state of the breaker, trip() followed at once by reset()
\* ends with state Closed, both consecutive counters 0 and the totals as
\* they were.
C10_TripThenReset ==
    Live =>
        LET t == trip(Self)
            s == IF t.panicked THEN t ELSE reset(t)
        IN /\ ~s.panicked
           /\ s.state = "Closed"
           /\ s.consecutive_failures = 0
           /\ s.consecutive_successes = 0
           /\ s.total_failures = total_failures
           /\ s.total_successes = total_successes

\* the public methods that change the breaker
Methods == {"execute", "handle_failure", "handle_success", "trip", "reset"}
Mutators == Methods \ {"execute"}

\* C11, as stated: no step takes a breaker that rests in HalfOpen to Closed
\* or Open; the state passes through HalfOpen to Closed or Open only inside
\* the execute call that left Open after the cooldown.
C11_Original ==
    [][/\ state = "HalfOpen" => state' = "HalfOpen"
       /\ (last'.op \in Methods /\ "halfOpen" \in Events(last'.sent)) =>
            (last'.op = "execute" /\ state = "Open" /\ now > open_timeout)]_vars

\* C11, amended: no execute call takes a breaker that rests in HalfOpen to
\* Closed or Open; the steps that do are direct calls of handle_failure,
\* handle_success, trip or reset.  The state passes through HalfOpen only
\* inside the execute call that left Open after the cooldown.
C11_LeavesHalfOpen ==
    [][/\ (state = "HalfOpen" /\ last'.op = "execute") => state' = "HalfOpen"
       /\ (state = "HalfOpen" /\ state' # "HalfOpen") => last'.op \in Mutators
       /\ (last'.op \in Methods /\ "halfOpen" \in Events(last'.sent)) =>
            (last'.op = "execute" /\ state = "Open" /\ now > open_timeout)]_vars

\* a failing operation passed through a breaker resting in HalfOpen, which
\* stays HalfOpen
C11_Witness ==
    /\ state = "HalfOpen" /\ ~panicked
    /\ last.op = "execute" /\ ~last.arg.ok
    /\ last.invoked = 1 /\ last.sent = <<>>

\* how often the event e is among the sends s
Count(s, e) == Cardinality({i \in 1..Len(s) : s[i] = e})

\* C12: a call of handle_success, and an execute call whose operation
\* succeeded on the accounting path (made while Closed, or the probe made
\* while Open), sends "close" exactly once, as its last event, to every
\* listener that runs, and ends Closed with both consecutive counters 0 and
\* total_successes one higher, whatever the state was before.
C12_SuccessCloses ==
    [][(\/ last'.op = "handle_success"
        \/ /\ last'.op = "execute" /\ last'.arg.ok
           /\ last'.invoked = 1 /\ state # "HalfOpen") =>
         /\ Count(last'.sent, "close") = 1
         /\ last'.sent[Len(last'.sent)] = "close"
         /\ ~panicked'
         /\ state' = "Closed"
         /\ consecutive_failures' = 0
         /\ consecutive_successes' = 0
         /\ total_successes' = total_successes + 1
         /\ \A i \in 1..Len(listeners) :
                listeners[i].alive =>
                    listeners'[i].pending = listeners[i].pending \o last'.sent]_vars

\* the second success of a breaker that was never tripped (it has no
\* listener, so a trip would have panicked): it was Closed before the call
C12_Witness ==
    /\ listeners = <<>> /\ ~panicked
    /\ state = "Closed" /\ total_successes = 2 /\ total_failures = 0
    /\ last.op = "execute" /\ last.sent = <<"close">>

\* C13: a turn of listener i receives the oldest event it has not received
\* yet, runs its callback exactly when that event is the one the callback
\* was registered for, and changes nothing of any other listener; a call of
\* the breaker hands every event it sends, in order, to every listener that
\* runs, whatever the other listeners have left unread.
C13_Independent ==
    [][/\ last'.op = "recv" =>
            LET i == last'.listener
            IN /\ last'.sent = <<Head(listeners[i].pending)>>
               /\ last'.fired <=> (Head(listeners[i].pending) = listeners[i].kind)
               /\ listeners'[i].pending = Tail(listeners[i].pending)
               /\ \A j \in 1..Len(listeners) : j # i => listeners'[j] = listeners[j]
       /\ last'.op \in Methods =>
            \A j \in 1..Len(listeners) :
                listeners[j].alive =>
                    listeners'[j].pending = listeners[j].pending \o last'.sent]_vars

\* the first of two listeners ran its callback for an event that the second,
\* which is further behind, has still to receive
C13_Witness ==
    /\ Len(listeners) = 2
    /\ last.op = "recv" /\ last.listener = 1 /\ last.fired
    /\ Len(listeners[2].pending) > Len(listeners[1].pending)
    /\ last.sent[1] \in Events(listeners[2].pending)

\* C14: a call of the breaker made after a listener was registered returns
\* with its transition done, however many events the listeners have left
\* unread: the call does not panic, and the state the next call finds is the
\* one the transition ends in (Open after a trip, Closed after a success,
\* not the HalfOpen a probe passes through when it trips or succeeds).
C14_NeverBlocked ==
    [][(last'.op \in Methods /\ Len(listeners) > 0) =>
         /\ ~panicked'
         /\ last'.result # Panic
         /\ "open" \in Events(last'.sent) => state' = "Open"
         /\ "close" \in Events(last'.sent) => state' = "Closed"]_vars

\* C15: in every reachable state consecutive_failures and
\* consecutive_successes are not both nonzero.
C15_Exclusive ==
    ~(consecutive_failures # 0 /\ consecutive_successes # 0)

\* a failure was counted, below the threshold, after a success had been
C15_Witness ==
    /\ consecutive_failures # 0 /\ total_successes # 0
    /\ last.op \in {"execute", "handle_failure"}

\* C16: with execute as the only method called, trip() runs exactly in the
\* calls that invoke the operation on the accounting path (made while
\* Closed, or the probe), get a failure, and with it bring
\* consecutive_failures to max_failures; the state becomes Open in no other
\* step.  consecutive_failures counts the accounted failures since the last
\* accounted success or trip: a failure that does not trip adds one, a
\* success or a trip sets it to 0, and no other step changes it.
C16_TripsInAccounting ==
    [][LET accounted == last'.op = "execute" /\ last'.invoked = 1 /\ state # "HalfOpen"
           failed == accounted /\ ~last'.arg.ok
           tripped == "open" \in Events(last'.sent) /\ last'.op \in Methods
       IN /\ (state' = "Open" /\ state # "Open") => tripped
          /\ tripped <=> (failed /\ Threshold)
          /\ tripped => (state' = "Open" /\ consecutive_failures' = 0)
          /\ (failed /\ ~tripped) => consecutive_failures' = consecutive_failures + 1
          /\ (accounted /\ ~failed) => consecutive_failures' = 0
          /\ ~accounted => UNCHANGED consecutive_failures]_vars

\* a breaker of threshold 2 tripped by two failures in a row after a success
C16_Witness ==
    /\ state = "Open" /\ ~panicked /\ max_failures = 2
    /\ total_successes = 1 /\ total_failures = 2
    /\ last.op = "execute" /\ last.sent = <<"open">>

\* C17: with execute as the only method called, a call made while Closed
\* and a call that moves the state from Open to HalfOpen (made while Open
\* after the cooldown) each add exactly one to total_failures +
\* total_successes; a call rejected while Open and a call passed through
\* while HalfOpen add nothing, and no call adds more than the number of
\* times it invoked the operation.
C17_SumCountsAccounted ==
    [][LET sum == total_failures + total_successes
           sum_ == total_failures' + total_successes'
           counted == \/ state = "Closed"
                      \/ state = "Open" /\ now > open_timeout
       IN /\ last'.op = "execute" =>
                /\ sum_ = sum + (IF counted THEN 1 ELSE 0)
                /\ sum_ - sum <= last'.invoked
          /\ last'.op \notin Methods => sum_ = sum]_vars

\* C18: between the calls consecutive_failures is below max_failures, and
\* 0 when max_failures is 0.
C18_BelowThreshold ==
    /\ max_failures >= 1 => consecutive_failures < max_failures
    /\ max_failures = 0 => consecutive_failures = 0

\* a breaker of threshold 2 counts a failure again after two failures
\* tripped it
C18_Witness ==
    /\ max_failures = 2 /\ consecutive_failures = 1 /\ total_failures = 3
    /\ last.op \in {"execute", "handle_failure"}

\* C19: a step changes open_timeout or makes the state Open only by running
\* trip(), and trip() sets open_timeout to the time it runs at plus timeout,
\* also when the breaker is Open already; so while the state is Open the
\* deadline is that of the latest trip.  Rejected calls, pass-through calls
\* and reset() leave it as it is.
C19_DeadlineFromTrip ==
    [][LET tripped == last'.op \in Methods /\ "open" \in Events(last'.sent)
       IN /\ tripped => (state' = "Open" /\ open_timeout' = now' + timeout)
          /\ ~tripped => /\ open_timeout' = open_timeout
                         /\ state' = "Open" => state = "Open"
          /\ last'.op = "trip" => tripped
          /\ (last'.op = "reset" \/ (last'.op = "execute" /\ last'.sent = <<>>))
                => open_timeout' = open_timeout]_vars

\* a direct trip() after time has passed: the deadline is measured from it
C19_Witness ==
    /\ last.op = "trip" /\ ~panicked /\ state = "Open"
    /\ now > 0 /\ timeout > 0 /\ open_timeout = now + timeout

\* the state an event announces
Announces(e) ==
    CASE e = "open" -> "Open"
      [] e = "close" -> "Closed"
      [] e = "halfOpen" -> "HalfOpen"

\* C20: a call sends its events in the order of its transitions, so the
\* last one announces the state the call ends in, and the probe (a call
\* made while Open after the cooldown) sends "halfOpen" first and then
\* "close" if the operation succeeded, "open" if its failure tripped,
\* nothing more otherwise; every listener that runs has the events of the
\* call appended, in that order, to those it has still to receive, and
\* receives the oldest first; a listener starts with nothing to receive
\* when it is registered.
C20_InOrder ==
    [][/\ (last'.op \in Methods /\ last'.sent # <<>>) =>
            /\ state' = Announces(last'.sent[Len(last'.sent)])
            /\ \A j \in 1..Len(listeners) :
                   listeners[j].alive =>
                       listeners'[j].pending = listeners[j].pending \o last'.sent
       /\ (last'.op = "execute" /\ state = "Open" /\ now > open_timeout
              /\ ~panicked') =>
            last'.sent = <<"halfOpen">> \o
                (IF last'.arg.ok THEN <<"close">>
                 ELSE IF Threshold THEN <<"open">> ELSE <<>>)
       /\ last'.op = "recv" =>
            /\ last'.sent = <<Head(listeners[last'.listener].pending)>>
            /\ listeners'[last'.listener].pending =
                   Tail(listeners[last'.listener].pending)
       /\ last'.op = "subscribe" =>
            /\ Len(listeners') = Len(listeners) + 1
            /\ listeners'[Len(listeners')].pending = <<>>
            /\ \A j \in 1..Len(listeners) : listeners'[j] = listeners[j]]_vars

\* two listeners have the events of a failed probe that tripped again to
\* receive: "halfOpen", then "open"
C20_Witness ==
    /\ Len(listeners) = 2 /\ ~panicked
    /\ last.op = "execute" /\ last.sent = <<"halfOpen", "open">>
    /\ \A j \in 1..2 : listeners[j].pending = <<"halfOpen", "open">>

====
